---- MODULE Spec2Model ----
(***************************************************************************)
(* A model of synapse/storage/_base.py: the Cache with its invalidation    *)
(* sequence, capacity and thread check, the CacheDescriptor accessor and   *)
(* the CacheListDescriptor batched accessor built on it, the retrying      *)
(* transaction runner (SQLBaseStore.runInteraction / _new_transaction),    *)
(* and the _simple_* table helpers that run inside a transaction.          *)
(***************************************************************************)
EXTENDS Integers, Sequences, FiniteSets, TLC

(***************************************************************************)
(* Bounds of the model.                                                    *)
(***************************************************************************)
MaxSeq == 2           \* invalidations performed in one behaviour
MaxVals == 3          \* values read or prefilled in one behaviour (Cache level)

Keys == {1, 2}        \* cache keys
Readers == {1, 2}     \* concurrent readers of the Cache

(***************************************************************************)
(* Cache.__init__: max_entries, the capacity of the store.                 *)
(***************************************************************************)
max_entries == 1

VARIABLES
    lru,          \* Cache.__init__: lru (LruCache) or not (OrderedDict)
    store,        \* Cache.cache: entries [key, val], oldest (least recent) first
    sequence,     \* Cache.sequence
    readers,      \* a reader of the Cache: the sequence it captured, its key, its value
    raced,        \* history: an invalidation ran since reader r captured the sequence
    discarded,    \* history: values whose update ran after such an invalidation
    nextVal,      \* the next fresh value
    lastGet,      \* the result of the latest Cache.get
    fetches,      \* producer invocations of the accessor, in launch order
    observers,    \* the observers handed to callers, each with what it has got
    moved,        \* history: pending fetches launched under an older sequence
    invalidated,  \* history: fetches pending when their key was invalidated
    evicted,      \* history: fetches whose pending entry left the store otherwise
    TXN_ID,       \* SQLBaseStore._TXN_ID
    pc,           \* where each transaction is in runInteraction / _new_transaction
    i,            \* _new_transaction: i, the retries made so far
    after_callbacks, \* runInteraction: after_callbacks, as [cb, attempt] records
    ret,          \* _new_transaction: r, named by the attempt that returned it
    hist,         \* history: executions of the work, rollbacks, commits
    invoked,      \* history: the callbacks invoked after the commit, in order
    delivered,    \* what the submitter's deferred has got
    closed,       \* whether the borrowed connection is in the closed state
    capacity,     \* Cache.__init__: max_entries, chosen at construction
    thread,       \* Cache.thread
    last,         \* the latest Cache operation: its name, key, value and outcome
    trail,        \* history: the prefills made so far, while they were of distinct keys
    calls,        \* history: invalidate and invalidate_all calls that returned
    batches,      \* invocations of the batched producer, in launch order
    requests,     \* calls of the batched accessor, each with what it gathers
    engine,       \* SQLBaseStore.database_engine: the driver behind the cursors
    table,        \* the committed rows of the table the helpers work on
    crud,         \* the latest helper call: what it executed and delivered
    worker,       \* each pool thread's position in the head of _new_transaction
    txn_id,       \* _new_transaction: txn_id, of each pool thread
    loaded,       \* the value of self._TXN_ID a pool thread has read to add 1
    names,        \* history: the ids given to transactions, in start order
    current_counters,  \* PerformanceCounters.current_counters: (count, cum_time)
    previous_counters, \* PerformanceCounters.previous_counters
    top_n_counters,    \* what the latest interval() reported, entry by entry
    since,        \* history: count and duration added by update() since the
                  \* latest interval()
    ticks,        \* history: update() and interval() calls made so far
    config_classes, \* RootConfig.config_classes, as the sections in their order
    attrs,        \* the <<section, item>> pairs with item in dir() of the section
    answer        \* the latest attribute lookup on a Config and its outcome

cacheVars == <<lru, store, sequence>>
readerVars == <<readers, raced, discarded, nextVal, lastGet>>
accVars == <<fetches, observers, moved, invalidated, evicted>>
txnVars == <<TXN_ID, pc, i, after_callbacks, ret, hist, invoked, delivered,
            closed>>
opVars == <<capacity, thread, last, trail, calls>>
batchVars == <<batches, requests>>
crudVars == <<engine, table, crud>>
idVars == <<worker, txn_id, loaded, names>>
perfVars == <<current_counters, previous_counters, top_n_counters, since, ticks>>
cfgVars == <<config_classes, attrs, answer>>
vars == <<lru, store, sequence, readers, raced, discarded, nextVal, lastGet,
          fetches, observers, moved, invalidated, evicted,
          TXN_ID, pc, i, after_callbacks, ret, hist, invoked, delivered, closed,
          capacity, thread, last, trail, calls, batches, requests,
          engine, table, crud, worker, txn_id, loaded, names,
          current_counters, previous_counters, top_n_counters, since, ticks,
          config_classes, attrs, answer>>

Miss == [kind |-> "miss", v |-> 0]
Raw(v) == [kind |-> "raw", v |-> v]
Deferred(f) == [kind |-> "deferred", v |-> f]

(***************************************************************************)
(* The store: OrderedDict (insertion order) or LruCache (recency order).   *)
(***************************************************************************)
HasKey(s, k) == \E n \in 1..Len(s) : s[n].key = k

IndexOf(s, k) == CHOOSE n \in 1..Len(s) : s[n].key = k

Lookup(s, k) == IF HasKey(s, k) THEN s[IndexOf(s, k)].val ELSE Miss

Remove(s, k) == SelectSeq(s, LAMBDA e : e.key # k)

\* OrderedDict.__setitem__: an existing key keeps its place, a new one goes last
OrderedDictSet(s, k, v) ==
    IF HasKey(s, k)
    THEN [s EXCEPT ![IndexOf(s, k)] = [key |-> k, val |-> v]]
    ELSE Append(s, [key |-> k, val |-> v])

\* while len(self.cache) >= self.max_entries: self.cache.popitem(last=False)
PopNewest(s, n) ==
    IF Len(s) >= n THEN SubSeq(s, 1, n - 1) ELSE s

PopWhenOver(s, n) ==
    IF Len(s) > n THEN Tail(s) ELSE s

PopOldest(s, n) ==
    IF Len(s) >= n THEN SubSeq(s, Len(s) - n + 2, Len(s)) ELSE s

\* LruCache set: the key becomes the most recent one, the least recent ones
\* are evicted while the store is over its size
LruSet(s, k, v, n) ==
    LET t == Append(Remove(s, k), [key |-> k, val |-> v])
    IN  IF Len(t) > n THEN SubSeq(t, Len(t) - n + 1, Len(t)) ELSE t

\* LruCache get: a hit makes the key the most recent one
LruTouch(s, k) ==
    IF HasKey(s, k) THEN Append(Remove(s, k), s[IndexOf(s, k)]) ELSE s

\* Cache.get: the store after the lookup
GetStore(isLru, s, k) == IF isLru THEN LruTouch(s, k) ELSE s

\* Cache.prefill
Prefill(isLru, s, k, v) ==
    IF isLru
    THEN LruSet(s, k, v, max_entries)
    ELSE OrderedDictSet(PopOldest(s, max_entries), k, v)

\* Cache.update: only if the sequence is the one the reader captured
UpdateOnStale(isLru, s, seq, captured, k, v) == Prefill(isLru, s, k, v)

Update(isLru, s, seq, captured, k, v) ==
    IF seq = captured THEN Prefill(isLru, s, k, v) ELSE s

\* Cache.invalidate: self.cache.pop(key, None)
InvalidateKeepsEntry(s, k) == s

InvalidatePop(s, k) == Remove(s, k)

\* Cache.invalidate / Cache.invalidate_all: the sequence after the call
InvalidateKeepsSequence(seq) == seq

BumpSequence(seq) == seq + 1

(***************************************************************************)
(* The Cache used directly: readers capture the sequence, read a value     *)
(* elsewhere, and hand it to update; writers invalidate.                   *)
(***************************************************************************)
IdleReader == [pc |-> "idle", seq |-> 0, key |-> 0, val |-> 0]

InitCache ==
    /\ lru \in BOOLEAN
    /\ store = <<>>
    /\ sequence = 0

InitReaders ==
    /\ readers = [r \in Readers |-> IdleReader]
    /\ raced = [r \in Readers |-> FALSE]
    /\ discarded = {}
    /\ nextVal = 1
    /\ lastGet = Miss

\* sequence = self.cache.sequence, before the read starts
ReaderBegin(r, k) ==
    /\ readers[r].pc = "idle"
    /\ nextVal <= MaxVals
    /\ readers' = [readers EXCEPT ![r] =
                      [pc |-> "reading", seq |-> sequence, key |-> k, val |-> nextVal]]
    /\ raced' = [raced EXCEPT ![r] = FALSE]
    /\ nextVal' = nextVal + 1
    /\ UNCHANGED <<lru, store, sequence, discarded, lastGet, accVars, txnVars, opVars, batchVars, crudVars, idVars, perfVars, cfgVars>>

\* Cache.update(sequence, key, value) once the read has finished
ReaderUpdate(r) ==
    /\ readers[r].pc = "reading"
    /\ store' = Update(lru, store, sequence, readers[r].seq,
                       readers[r].key, Raw(readers[r].val))
    /\ discarded' = IF raced[r] THEN discarded \cup {readers[r].val} ELSE discarded
    /\ readers' = [readers EXCEPT ![r].pc = "idle"]
    /\ UNCHANGED <<lru, sequence, raced, nextVal, lastGet, accVars, txnVars, opVars, batchVars, crudVars, idVars, perfVars, cfgVars>>

Racing == [r \in Readers |-> raced[r] \/ readers[r].pc = "reading"]

CacheInvalidate(k) ==
    /\ sequence < MaxSeq
    /\ sequence' = BumpSequence(sequence)
    /\ store' = InvalidatePop(store, k)
    /\ raced' = Racing
    /\ UNCHANGED <<lru, readers, discarded, nextVal, lastGet, accVars, txnVars, opVars, batchVars, crudVars, idVars, perfVars, cfgVars>>

CacheInvalidateAll ==
    /\ sequence < MaxSeq
    /\ sequence' = BumpSequence(sequence)
    /\ store' = <<>>
    /\ raced' = Racing
    /\ UNCHANGED <<lru, readers, discarded, nextVal, lastGet, accVars, txnVars, opVars, batchVars, crudVars, idVars, perfVars, cfgVars>>

CachePrefill(k) ==
    /\ nextVal <= MaxVals
    /\ store' = Prefill(lru, store, k, Raw(nextVal))
    /\ nextVal' = nextVal + 1
    /\ UNCHANGED <<lru, sequence, readers, raced, discarded, lastGet, accVars, txnVars, opVars, batchVars, crudVars, idVars, perfVars, cfgVars>>

CacheGet(k) ==
    /\ lastGet' = Lookup(store, k)
    /\ store' = GetStore(lru, store, k)
    /\ UNCHANGED <<lru, sequence, readers, raced, discarded, nextVal, accVars, txnVars, opVars, batchVars, crudVars, idVars, perfVars, cfgVars>>

NextCache ==
    \/ \E r \in Readers, k \in Keys : ReaderBegin(r, k)
    \/ \E r \in Readers : ReaderUpdate(r)
    \/ \E k \in Keys : CacheInvalidate(k)
    \/ CacheInvalidateAll
    \/ \E k \in Keys : CachePrefill(k)
    \/ \E k \in Keys : CacheGet(k)


(***************************************************************************)
(* CacheDescriptor: the accessor.  A producer invocation ("fetch") is a    *)
(* deferred; the store holds Deferred(f), the ObservableDeferred around    *)
(* fetch f, whose result is named by f itself.                             *)
(***************************************************************************)
MaxFetch == 2         \* producer invocations in one behaviour

Fetched == 1..Len(fetches)

Pending(f) == fetches[f].state = "pending"

Holds(s, f) == \E n \in 1..Len(s) : s[n].val = Deferred(f)

\* fetches whose pending entry is in s and no longer in t
Dropped(s, t) == {f \in Fetched : Pending(f) /\ Holds(s, f) /\ ~Holds(t, f)}

\* the pending fetches for key k at the time invalidate(k) runs
PendingFor(k) == {f \in Fetched : Pending(f) /\ fetches[f].key = k}

\* ObservableDeferred.observe: what a new observer of fetch f has at once
Observe(f) == IF Pending(f) THEN "waiting" ELSE fetches[f].state

\* ObservableDeferred firing: every waiting observer of f gets the outcome
Fire(os, f, outcome) ==
    {IF o.obs = f /\ o.got = "waiting" THEN [o EXCEPT !.got = outcome] ELSE o :
        o \in os}

\* try: cached_result_d = self.cache.get(cache_key)
AlwaysMiss(s, k) == FALSE

CacheHit(s, k) == HasKey(s, k)

\* onErr: self.cache.invalidate(cache_key), the store after it
OnErrKeepsEntry(s, k) == s

OnErr(s, k) == Remove(s, k)

\* wrapped(), the hit branch on an ObservableDeferred
CallHit(k) ==
    /\ CacheHit(store, k)
    /\ Lookup(store, k).kind = "deferred"
    /\ LET f == Lookup(store, k).v
       IN  observers' = observers \cup
               {[obs |-> f, launched |-> FALSE, early |-> Pending(f),
                 got |-> Observe(f)]}
    /\ store' = GetStore(lru, store, k)
    /\ UNCHANGED <<lru, sequence, fetches, moved, invalidated, evicted, readerVars,
                   txnVars, opVars, batchVars, crudVars, idVars, perfVars, cfgVars>>

\* wrapped(), the hit branch on a value that prefill stored as it is:
\* cached_result_d.observe() raises AttributeError
CallHitRaw(k) ==
    /\ CacheHit(store, k)
    /\ Lookup(store, k).kind = "raw"
    /\ store' = GetStore(lru, store, k)
    /\ UNCHANGED <<lru, sequence, fetches, observers, moved, invalidated, evicted,
                   readerVars, txnVars, opVars, batchVars, crudVars, idVars, perfVars, cfgVars>>

\* wrapped(), the miss branch; outcome is what the producer has done by the
\* time maybeDeferred returns: still pending, a value, or an exception
CallMiss(k, outcome) ==
    /\ Len(fetches) < MaxFetch
    /\ ~CacheHit(store, k)
    /\ outcome = "failed" => sequence < MaxSeq
    /\ LET f == Len(fetches) + 1
           captured == sequence
           failed == outcome = "failed"
           got == IF outcome = "pending" THEN "waiting" ELSE outcome
           seq1 == IF failed THEN BumpSequence(sequence) ELSE sequence
           s1 == IF failed THEN OnErr(store, k) ELSE store
           s2 == Update(lru, s1, seq1, captured, k, Deferred(f))
       IN  /\ fetches' = Append(fetches,
                   [key |-> k, state |-> outcome])
           /\ observers' = observers \cup
                   {[obs |-> f, launched |-> TRUE, early |-> TRUE, got |-> got]}
           /\ sequence' = seq1
           /\ moved' = IF failed THEN {g \in Fetched : Pending(g)} ELSE moved
           /\ store' = s2
           /\ invalidated' = IF failed THEN invalidated \cup PendingFor(k)
                             ELSE invalidated
           /\ evicted' = evicted \cup Dropped(s1, s2)
    /\ UNCHANGED <<lru, readerVars, txnVars, opVars, batchVars, crudVars, idVars, perfVars, cfgVars>>

\* the producer's deferred fires with a value
CompleteOk(f) ==
    /\ f \in Fetched
    /\ Pending(f)
    /\ fetches' = [fetches EXCEPT ![f].state = "ok"]
    /\ observers' = Fire(observers, f, "ok")
    /\ moved' = moved \ {f}
    /\ UNCHANGED <<lru, store, sequence, invalidated, evicted, readerVars, txnVars, opVars, batchVars, crudVars, idVars, perfVars, cfgVars>>

\* the producer's deferred fires with a failure: onErr, then the observers
CompleteFailed(f) ==
    /\ f \in Fetched
    /\ Pending(f)
    /\ sequence < MaxSeq
    /\ fetches' = [fetches EXCEPT ![f].state = "failed"]
    /\ sequence' = BumpSequence(sequence)
    /\ store' = OnErr(store, fetches[f].key)
    /\ invalidated' = invalidated \cup (PendingFor(fetches[f].key) \ {f})
    /\ observers' = Fire(observers, f, "failed")
    /\ moved' = {g \in Fetched : Pending(g)} \ {f}
    /\ UNCHANGED <<lru, evicted, readerVars, txnVars, opVars, batchVars, crudVars, idVars, perfVars, cfgVars>>

\* wrapped.invalidate = self.cache.invalidate
AccInvalidate(k) ==
    /\ sequence < MaxSeq
    /\ sequence' = BumpSequence(sequence)
    /\ store' = InvalidatePop(store, k)
    /\ invalidated' = invalidated \cup PendingFor(k)
    /\ moved' = {g \in Fetched : Pending(g)}
    /\ UNCHANGED <<lru, fetches, observers, evicted, readerVars, txnVars, opVars, batchVars, crudVars, idVars, perfVars, cfgVars>>

\* wrapped.invalidate_all = self.cache.invalidate_all
AccInvalidateAll ==
    /\ sequence < MaxSeq
    /\ sequence' = BumpSequence(sequence)
    /\ store' = <<>>
    /\ invalidated' = invalidated \cup {f \in Fetched : Pending(f)}
    /\ moved' = {g \in Fetched : Pending(g)}
    /\ UNCHANGED <<lru, fetches, observers, evicted, readerVars, txnVars, opVars, batchVars, crudVars, idVars, perfVars, cfgVars>>

\* wrapped.prefill = self.cache.prefill: the value is stored as it is
AccPrefill(k) ==
    /\ store' = Prefill(lru, store, k, Raw(k))
    /\ evicted' = evicted \cup Dropped(store, store')
    /\ UNCHANGED <<lru, sequence, fetches, observers, moved, invalidated,
                   readerVars, txnVars, opVars, batchVars, crudVars, idVars, perfVars, cfgVars>>

InitAccessor ==
    /\ fetches = <<>>
    /\ observers = {}
    /\ moved = {}
    /\ invalidated = {}
    /\ evicted = {}

NextAccessor ==
    \/ \E k \in Keys : CallHit(k)
    \/ \E k \in Keys : CallHitRaw(k)
    \/ \E k \in Keys, o \in {"pending", "ok", "failed"} : CallMiss(k, o)
    \/ \E f \in 1..MaxFetch : CompleteOk(f)
    \/ \E f \in 1..MaxFetch : CompleteFailed(f)
    \/ \E k \in Keys : AccInvalidate(k)
    \/ AccInvalidateAll
    \/ \E k \in Keys : AccPrefill(k)

(***************************************************************************)
(* SQLBaseStore.runInteraction and _new_transaction: a unit of work run    *)
(* against a borrowed connection, retried on transient errors, committed,  *)
(* and followed by its after-callbacks.                                    *)
(***************************************************************************)
N == 5                \* _new_transaction: N
MaxCallbacks == 2     \* call_after registrations of one transaction
MaxTxns == 2          \* transactions submitted in one behaviour

Txns == {1}           \* submitters; each runs its transactions one after another
Callbacks == {"a", "b"}

\* except OperationalError; except DatabaseError with is_deadlock(e); the
\* other DatabaseErrors; any other exception
Errors == {"OperationalError", "Deadlock", "DatabaseError", "Exception"}

TransientAnyDatabaseError(e) ==
    e \in {"OperationalError", "Deadlock", "DatabaseError"}

Transient(e) == e \in {"OperationalError", "Deadlock"}

\* if i < N: the retry budget
RetryOneMore(n) == n <= N

RetryAllowed(n) == n < N

\* for after_callback, after_args in after_callbacks: the callbacks invoked
\* when the one at failAt raises (0: none raises)
RunReversed(cbs, failAt) ==
    [j \in 1..(IF failAt = 0 THEN Len(cbs) ELSE failAt) |-> cbs[Len(cbs) + 1 - j]]

RunCallbacks(cbs, failAt) ==
    SubSeq(cbs, 1, IF failAt = 0 THEN Len(cbs) ELSE failAt)

\* what a retry finds in after_callbacks: the list is created once per
\* runInteraction and handed to every attempt
ClearedOnRetry(cbs) == <<>>

CarriedOver(cbs) == cbs

\* conn.rollback() returns, or raises a database_engine.module.Error
RollbackOutcomes == {"ok", "Error"}

\* try: conn.rollback() / except module.Error as e1: logger.warn: whether the
\* error of a rollback leaves _new_transaction
EscapesIfRaised(rb) == rb = "Error"

Escapes(rb) == FALSE

\* if self.database_engine.is_connection_closed(conn): conn.reconnect(), on
\* a connection borrowed in state c
ReconnectIfClosed(c) == IF c THEN FALSE ELSE c

\* the state of the connection after an attempt on a connection in state c
\* raised e: an OperationalError may be the loss of the connection
AfterError(e, c) == IF e = "OperationalError" THEN {c, TRUE} ELSE {c}

NoHist == [executed |-> 0, workRaised |-> 0, rollbacks |-> 0, commits |-> 0,
           rollbackRaised |-> FALSE]

InitTxn ==
    /\ TXN_ID = 0
    /\ pc = [t \in Txns |-> "idle"]
    /\ i = [t \in Txns |-> 0]
    /\ after_callbacks = [t \in Txns |-> <<>>]
    /\ ret = [t \in Txns |-> 0]
    /\ hist = [t \in Txns |-> NoHist]
    /\ invoked = [t \in Txns |-> <<>>]
    /\ delivered = [t \in Txns |-> "none"]
    /\ closed = [t \in Txns |-> FALSE]

\* runInteraction: after_callbacks = []; the pool runs inner_func, which
\* calls _new_transaction: i = 0, and the first attempt calls func
Submit(t) ==
    /\ pc[t] \in {"idle", "done", "failed"}
    /\ TXN_ID < MaxTxns
    /\ TXN_ID' = TXN_ID + 1
    /\ pc' = [pc EXCEPT ![t] = "work"]
    /\ i' = [i EXCEPT ![t] = 0]
    /\ after_callbacks' = [after_callbacks EXCEPT ![t] = <<>>]
    /\ ret' = [ret EXCEPT ![t] = 0]
    /\ hist' = [hist EXCEPT ![t] = [NoHist EXCEPT !.executed = 1]]
    /\ invoked' = [invoked EXCEPT ![t] = <<>>]
    /\ delivered' = [delivered EXCEPT ![t] = "none"]
    /\ \E c \in BOOLEAN : closed' = [closed EXCEPT ![t] = ReconnectIfClosed(c)]
    /\ UNCHANGED <<cacheVars, readerVars, accVars, opVars, batchVars, crudVars, idVars, perfVars, cfgVars>>

\* LoggingTransaction.call_after, called by the work function
CallAfter(t, cb) ==
    /\ pc[t] = "work"
    /\ ~closed[t]
    /\ Len(after_callbacks[t]) < MaxCallbacks
    /\ after_callbacks' = [after_callbacks EXCEPT ![t] =
           Append(@, [cb |-> cb, attempt |-> hist[t].executed])]
    /\ UNCHANGED <<TXN_ID, pc, i, ret, hist, invoked, delivered, closed,
                   cacheVars, readerVars, accVars, opVars, batchVars, crudVars, idVars, perfVars, cfgVars>>

\* txn = conn.cursor() on an open connection, and r = func(txn, *args,
\* **kwargs) returns
WorkReturn(t) ==
    /\ pc[t] = "work"
    /\ ~closed[t]
    /\ ret' = [ret EXCEPT ![t] = hist[t].executed]
    /\ pc' = [pc EXCEPT ![t] = "commit"]
    /\ UNCHANGED <<TXN_ID, i, after_callbacks, hist, invoked, delivered, closed,
                   cacheVars, readerVars, accVars, opVars, batchVars, crudVars, idVars, perfVars, cfgVars>>

\* the except clauses of _new_transaction on error e: roll back and run the
\* next attempt, or raise
Handle(t, e, rb, h) ==
    IF Transient(e) /\ RetryAllowed(i[t])
    THEN /\ i' = [i EXCEPT ![t] = @ + 1]
         /\ after_callbacks' = [after_callbacks EXCEPT ![t] = CarriedOver(@)]
         /\ \E c \in AfterError(e, closed[t]) :
                closed' = [closed EXCEPT ![t] = c]
         /\ IF Escapes(rb)
            THEN /\ hist' = [hist EXCEPT ![t] =
                        [h EXCEPT !.rollbacks = @ + 1, !.rollbackRaised = TRUE]]
                 /\ pc' = [pc EXCEPT ![t] = "failed"]
                 /\ delivered' = [delivered EXCEPT ![t] = "RollbackError"]
            ELSE /\ hist' = [hist EXCEPT ![t] =
                        [h EXCEPT !.rollbacks = @ + 1, !.executed = @ + 1,
                                  !.rollbackRaised = @ \/ rb = "Error"]]
                 /\ pc' = [pc EXCEPT ![t] = "work"]
                 /\ delivered' = delivered
    ELSE /\ pc' = [pc EXCEPT ![t] = "failed"]
         /\ delivered' = [delivered EXCEPT ![t] = e]
         /\ hist' = [hist EXCEPT ![t] = h]
         /\ UNCHANGED <<i, after_callbacks, closed>>

\* conn.cursor() or func raises e
WorkRaise(t, e, rb) ==
    /\ pc[t] = "work"
    /\ Handle(t, e, rb, [hist[t] EXCEPT !.workRaised = @ + 1])
    /\ UNCHANGED <<TXN_ID, ret, invoked, cacheVars, readerVars, accVars, opVars, batchVars, crudVars, idVars, perfVars, cfgVars>>

\* where the attempt goes when conn.commit() has returned: round the while
\* True loop again
LoopsOn == "work"

\* return r
Returns == "committed"

\* conn.commit() returns: return r
CommitOk(t) ==
    /\ pc[t] = "commit"
    /\ hist' = [hist EXCEPT ![t].commits = @ + 1]
    /\ pc' = [pc EXCEPT ![t] = Returns]
    /\ UNCHANGED <<TXN_ID, i, after_callbacks, ret, invoked, delivered, closed,
                   cacheVars, readerVars, accVars, opVars, batchVars, crudVars, idVars, perfVars, cfgVars>>

\* conn.commit() raises e, inside the same try
CommitRaise(t, e, rb) ==
    /\ pc[t] = "commit"
    /\ Handle(t, e, rb, hist[t])
    /\ UNCHANGED <<TXN_ID, ret, invoked, cacheVars, readerVars, accVars, opVars, batchVars, crudVars, idVars, perfVars, cfgVars>>

\* runInteraction after the yield: the callbacks, then returnValue(result);
\* a callback that raises ends the loop and fails the submitter's deferred
AfterCommit(t, failAt) ==
    /\ pc[t] = "committed"
    /\ failAt \in 0..Len(after_callbacks[t])
    /\ invoked' = [invoked EXCEPT ![t] = RunCallbacks(after_callbacks[t], failAt)]
    /\ pc' = [pc EXCEPT ![t] = IF failAt = 0 THEN "done" ELSE "failed"]
    /\ delivered' = [delivered EXCEPT ![t] =
           IF failAt = 0 THEN "result" ELSE "CallbackError"]
    /\ UNCHANGED <<TXN_ID, i, after_callbacks, ret, hist, closed, cacheVars, readerVars, accVars, opVars, batchVars, crudVars, idVars, perfVars, cfgVars>>

NextTxn ==
    \/ \E t \in Txns : Submit(t)
    \/ \E t \in Txns, cb \in Callbacks : CallAfter(t, cb)
    \/ \E t \in Txns : WorkReturn(t)
    \/ \E t \in Txns, e \in Errors, rb \in RollbackOutcomes : WorkRaise(t, e, rb)
    \/ \E t \in Txns : CommitOk(t)
    \/ \E t \in Txns, e \in Errors, rb \in RollbackOutcomes : CommitRaise(t, e, rb)
    \/ \E t \in Txns, failAt \in 0..MaxCallbacks : AfterCommit(t, failAt)
(***************************************************************************)
(* The head of _new_transaction run by the threads of the connection pool: *)
(* txn_id = self._TXN_ID, then self._TXN_ID = (self._TXN_ID + 1) % (...),  *)
(* a read and a read-modify-write of a field shared by the threads with no *)
(* lock around them.                                                       *)
(***************************************************************************)
MaxStarts == 4        \* transactions started in one behaviour
IdWrap == 3           \* stands for sys.maxint - 1, the modulus of the ids

Workers == {1, 2}     \* threads of the connection pool

\* (self._TXN_ID + 1) % (sys.maxint - 1)
NextId(n) == (n + 1) % IdWrap

InitIds ==
    /\ worker = [w \in Workers |-> "idle"]
    /\ txn_id = [w \in Workers |-> 0]
    /\ loaded = [w \in Workers |-> 0]
    /\ names = <<>>

\* txn_id = self._TXN_ID
ReadTxnId(w) ==
    /\ worker[w] = "idle"
    /\ Len(names) < MaxStarts
    /\ txn_id' = [txn_id EXCEPT ![w] = TXN_ID]
    /\ names' = Append(names, TXN_ID)
    /\ worker' = [worker EXCEPT ![w] = "named"]
    /\ UNCHANGED <<loaded, cacheVars, readerVars, accVars, txnVars, opVars,
                   batchVars, crudVars, perfVars, cfgVars>>

\* the right-hand side of the assignment reads self._TXN_ID
LoadTxnId(w) ==
    /\ worker[w] = "named"
    /\ loaded' = [loaded EXCEPT ![w] = TXN_ID]
    /\ worker' = [worker EXCEPT ![w] = "loaded"]
    /\ UNCHANGED <<txn_id, names, cacheVars, readerVars, accVars, txnVars, opVars,
                   batchVars, crudVars, perfVars, cfgVars>>

\* self._TXN_ID = ...: the store; the thread goes on with its transaction and
\* is free for the next one
StoreTxnId(w) ==
    /\ worker[w] = "loaded"
    /\ TXN_ID' = NextId(loaded[w])
    /\ worker' = [worker EXCEPT ![w] = "idle"]
    /\ UNCHANGED <<txn_id, loaded, names, pc, i, after_callbacks, ret, hist,
                   invoked, delivered, closed, cacheVars, readerVars, accVars,
                   opVars, batchVars, crudVars, perfVars, cfgVars>>

NextIds ==
    \/ \E w \in Workers : ReadTxnId(w)
    \/ \E w \in Workers : LoadTxnId(w)
    \/ \E w \in Workers : StoreTxnId(w)

(***************************************************************************)
(* PerformanceCounters: update() adds one call and its duration to the     *)
(* counters of a description, interval() reports what was added since the  *)
(* report before.  Descriptions are numbered in the order of their names;  *)
(* a description is in a dict when its count is above 0.                   *)
(***************************************************************************)
MaxTicks == 4         \* update() and interval() calls in one behaviour

Descs == {1, 2, 3}    \* transaction descriptions
Durations == {1, 2}   \* end_time - start_time of one update()
Intervals == {1, 2}   \* interval_duration, above 0
Limits == {1, 2, 3}   \* limit

NoCounters == [key \in Descs |-> [count |-> 0, cum_time |-> 0]]

\* (ratio, count, name): the ratio is (cum_time - prev_time) / d, kept as the
\* pair of its terms
Entry(cur, prev, d, name) ==
    [ratio |-> [num |-> cur[name].cum_time - prev[name].cum_time, den |-> d],
     count |-> cur[name].count - prev[name].count,
     name |-> name]

\* the order of the tuples under counters.sort(reverse=True); the ratios of
\* one report have the same denominator d > 0
Before(a, b) ==
    \/ a.ratio.num > b.ratio.num
    \/ a.ratio.num = b.ratio.num /\ a.count > b.count
    \/ a.ratio.num = b.ratio.num /\ a.count = b.count /\ a.name > b.name

RECURSIVE SortReverse(_)
SortReverse(es) ==
    IF es = {} THEN <<>>
    ELSE LET first == CHOOSE a \in es : \A b \in es \ {a} : Before(a, b)
         IN  <<first>> \o SortReverse(es \ {first})

\* counters[:limit]
Slice(q, limit) == SubSeq(q, 1, IF limit < Len(q) THEN limit ELSE Len(q))

\* self.previous_counters left as it is
KeepPrevious(prev, cur) == prev

\* self.previous_counters = dict(self.current_counters)
Snapshot(prev, cur) == cur

InitPerf ==
    /\ current_counters = NoCounters
    /\ previous_counters = NoCounters
    /\ top_n_counters = <<>>
    /\ since = NoCounters
    /\ ticks = 0

PerfOthers == <<cacheVars, readerVars, accVars, txnVars, opVars, batchVars,
                crudVars, idVars, cfgVars>>

\* PerformanceCounters.update(key, start_time, end_time)
PerfUpdate(key, duration) ==
    /\ ticks < MaxTicks
    /\ ticks' = ticks + 1
    /\ current_counters' = [current_counters EXCEPT ![key] =
           [count |-> @.count + 1, cum_time |-> @.cum_time + duration]]
    /\ since' = [since EXCEPT ![key] =
           [count |-> @.count + 1, cum_time |-> @.cum_time + duration]]
    /\ UNCHANGED <<previous_counters, top_n_counters, PerfOthers>>

\* PerformanceCounters.interval(interval_duration, limit)
PerfInterval(d, limit) ==
    /\ ticks < MaxTicks
    /\ ticks' = ticks + 1
    /\ LET counters == {Entry(current_counters, previous_counters, d, name) :
                           name \in {k \in Descs : current_counters[k].count > 0}}
       IN  top_n_counters' = Slice(SortReverse(counters), limit)
    /\ previous_counters' = Snapshot(previous_counters, current_counters)
    /\ since' = NoCounters
    /\ UNCHANGED <<current_counters, PerfOthers>>

NextPerf ==
    \/ \E key \in Descs, duration \in Durations : PerfUpdate(key, duration)
    \/ \E d \in Intervals, limit \in Limits : PerfInterval(d, limit)

(***************************************************************************)
(* synapse/config/_base.py: an attribute lookup on a Config section.  The  *)
(* section's own attributes are found by the normal lookup; for the others *)
(* Python calls Config.__getattr__, which asks the root for the first      *)
(* other section that has the attribute.  The value section s has for item *)
(* is named <<s, item>>.                                                   *)
(***************************************************************************)
Sections == {"tls", "server", "logger"}
Items == {"server_name", "read_config"}

\* if item in ["generate_config_section", "read_config"]
Reserved == {"generate_config_section", "read_config"}

Orders ==
    {q \in [1..3 -> Sections] : \A a, b \in 1..3 : a # b => q[a] # q[b]}

Found(sec, item) == [kind |-> "value", section |-> sec, item |-> item]
AttributeError(item) == [kind |-> "AttributeError", section |-> "none", item |-> item]

NoAnswer == [asking |-> "none", root |-> FALSE, item |-> "none",
             out |-> AttributeError("none"), consulted |-> {}]

\* no section is passed over
SkipsNone(key, asking_section) == FALSE

\* if key == asking_section: continue
Skips(key, asking_section) == key = asking_section

\* the sections whose dir() the loop looks into, in order
Asked(classes, asking_section) ==
    SelectSeq(classes, LAMBDA key : ~Skips(key, asking_section))

\* the last of the sections that have the item
LastHaving(q) == q[Len(q)]

\* for key, val in self._configs.items(): ... return getattr(val, item), at
\* the first section that has the item
FirstHaving(q) == Head(q)

\* RootConfig._get_unclassed_config(asking_section, item)
GetUnclassedConfig(classes, as, asking_section, item) ==
    LET having == SelectSeq(Asked(classes, asking_section),
                            LAMBDA key : <<key, item>> \in as)
    IN  IF having = <<>> THEN AttributeError(item)
        ELSE Found(FirstHaving(having), item)

\* the sections the loop has looked into when it returns or raises
Consulted(classes, as, asking_section, item) ==
    LET asked == Asked(classes, asking_section)
        hits == {n \in 1..Len(asked) : <<asked[n], item>> \in as}
    IN  {asked[n] : n \in {m \in 1..Len(asked) : \A h \in hits : m <= h}}

\* Config.__getattr__(item) of a section whose root is set or is None
ConfigGetattr(classes, as, section, rooted, item) ==
    IF item \in Reserved THEN AttributeError(item)
    ELSE IF ~rooted THEN AttributeError(item)
    ELSE GetUnclassedConfig(classes, as, section, item)

InitConfigIdle ==
    /\ config_classes = <<"tls", "server", "logger">>
    /\ attrs = {}
    /\ answer = NoAnswer

InitConfig ==
    /\ config_classes \in Orders
    /\ attrs \in SUBSET (Sections \X Items)
    /\ answer = NoAnswer

ConfigOthers == <<cacheVars, readerVars, accVars, txnVars, opVars, batchVars,
                  crudVars, idVars, perfVars>>

\* section.item: the normal lookup, and __getattr__ when it finds nothing
GetOption(section, rooted, item) ==
    /\ answer' =
           [asking |-> section, root |-> rooted, item |-> item,
            out |-> IF <<section, item>> \in attrs THEN Found(section, item)
                    ELSE ConfigGetattr(config_classes, attrs, section, rooted, item),
            consulted |-> IF <<section, item>> \in attrs \/ item \in Reserved
                             \/ ~rooted
                          THEN {}
                          ELSE Consulted(config_classes, attrs, section, item)]
    /\ UNCHANGED <<config_classes, attrs, ConfigOthers>>

NextConfig ==
    \E section \in Sections, rooted \in BOOLEAN, item \in Items :
        GetOption(section, rooted, item)

(***************************************************************************)
(* The Cache called from several threads, with the capacity chosen at      *)
(* construction: get, update, prefill, invalidate and invalidate_all, each *)
(* with the thread that makes the call.                                    *)
(***************************************************************************)
Capacities == {1, 2}               \* Cache.__init__: max_entries
KeyArgs == {"a", "b", "c"}         \* keys, each standing for a tuple
NonTuple == "s"                    \* a key that is not a tuple
Vals == {1, 2, 3}                  \* values handed to prefill and update
Threads == {"main", "other"}       \* threading.current_thread()
None == "None"                     \* Cache.thread before the first check

Ok == [kind |-> "ok", v |-> 0]
ValueError == [kind |-> "ValueError", v |-> 0]

\* check_thread: the call is refused
Rejected(cur, th) == cur # None /\ cur # th

\* check_thread: self.thread after the call
ThreadAfter(cur, th) == IF cur = None THEN th ELSE cur

\* Cache.prefill of a cache built with max_entries = n
PrefillWith(n, isLru, s, k, v) ==
    IF isLru
    THEN LruSet(s, k, v, n)
    ELSE OrderedDictSet(PopOldest(s, n), k, v)

\* Cache.update of a cache built with max_entries = n
UpdateWith(n, isLru, s, seq, captured, k, v) ==
    IF seq = captured THEN PrefillWith(n, isLru, s, k, v) ELSE s

NoOp == [op |-> "none", key |-> NonTuple, val |-> 0, out |-> Ok]

NoTrail == [live |-> TRUE, ps |-> <<>>]

Broken == [live |-> FALSE, ps |-> <<>>]

\* the prefills so far, as long as they are of distinct keys into the cache
\* as constructed, up to one more than the capacity
Extend(tr, n, k, v) ==
    IF tr.live /\ Len(tr.ps) <= n /\ \A j \in 1..Len(tr.ps) : tr.ps[j].key # k
    THEN [tr EXCEPT !.ps = Append(@, [key |-> k, val |-> v])]
    ELSE Broken

\* the variables of the other specifications while this one runs, and of
\* this one while the others run
InitOpsIdle ==
    /\ capacity = max_entries
    /\ thread = None
    /\ last = NoOp
    /\ trail = NoTrail
    /\ calls = 0

InitOps ==
    /\ capacity \in Capacities
    /\ thread = None
    /\ last = NoOp
    /\ trail = NoTrail
    /\ calls = 0

\* Cache.get(key): no check_thread
ThreadGet(th, k) ==
    /\ last' = [op |-> "get", key |-> k, val |-> 0, out |-> Lookup(store, k)]
    /\ store' = GetStore(lru, store, k)
    /\ trail' = IF lru THEN Broken ELSE trail
    /\ UNCHANGED <<lru, sequence, capacity, thread, calls,
                   readerVars, accVars, txnVars, batchVars, crudVars, idVars, perfVars, cfgVars>>

\* Cache.prefill(key, value): no check_thread
ThreadPrefill(th, k, v) ==
    /\ store' = PrefillWith(capacity, lru, store, k, Raw(v))
    /\ last' = [op |-> "prefill", key |-> k, val |-> v, out |-> Ok]
    /\ trail' = Extend(trail, capacity, k, v)
    /\ UNCHANGED <<lru, sequence, capacity, thread, calls,
                   readerVars, accVars, txnVars, batchVars, crudVars, idVars, perfVars, cfgVars>>

\* Cache.update(sequence, key, value): check_thread, then the gated prefill
ThreadUpdate(th, captured, k, v) ==
    /\ IF Rejected(thread, th)
       THEN /\ last' = [op |-> "update", key |-> k, val |-> v, out |-> ValueError]
            /\ UNCHANGED <<store, thread>>
       ELSE /\ thread' = ThreadAfter(thread, th)
            /\ store' = UpdateWith(capacity, lru, store, sequence, captured, k, Raw(v))
            /\ last' = [op |-> "update", key |-> k, val |-> v, out |-> Ok]
    /\ trail' = Broken
    /\ UNCHANGED <<lru, sequence, capacity, calls, readerVars, accVars, txnVars, batchVars, crudVars, idVars, perfVars, cfgVars>>

\* Cache.invalidate(key): check_thread, the tuple check, then the bump and
\* the pop; val records whether the key was there
ThreadInvalidate(th, k) ==
    /\ sequence < MaxSeq
    /\ IF Rejected(thread, th)
       THEN /\ last' = [op |-> "invalidate", key |-> k, val |-> 0, out |-> ValueError]
            /\ UNCHANGED <<store, sequence, thread, calls>>
       ELSE /\ thread' = ThreadAfter(thread, th)
            /\ IF k = NonTuple
               THEN /\ last' = [op |-> "invalidate", key |-> k, val |-> 0,
                                out |-> ValueError]
                    /\ UNCHANGED <<store, sequence, calls>>
               ELSE /\ sequence' = BumpSequence(sequence)
                    /\ store' = InvalidatePop(store, k)
                    /\ calls' = calls + 1
                    /\ last' = [op |-> "invalidate", key |-> k,
                                val |-> IF HasKey(store, k) THEN 1 ELSE 0,
                                out |-> Ok]
    /\ trail' = Broken
    /\ UNCHANGED <<lru, capacity, readerVars, accVars, txnVars, batchVars, crudVars, idVars, perfVars, cfgVars>>

\* Cache.invalidate_all(): check_thread, the bump and the clear; val records
\* the number of entries there were
ThreadInvalidateAll(th) ==
    /\ sequence < MaxSeq
    /\ IF Rejected(thread, th)
       THEN /\ last' = [op |-> "invalidate_all", key |-> NonTuple, val |-> 0,
                        out |-> ValueError]
            /\ UNCHANGED <<store, sequence, thread, calls>>
       ELSE /\ thread' = ThreadAfter(thread, th)
            /\ sequence' = BumpSequence(sequence)
            /\ store' = <<>>
            /\ calls' = calls + 1
            /\ last' = [op |-> "invalidate_all", key |-> NonTuple,
                        val |-> Len(store), out |-> Ok]
    /\ trail' = Broken
    /\ UNCHANGED <<lru, capacity, readerVars, accVars, txnVars, batchVars, crudVars, idVars, perfVars, cfgVars>>

NextThreads ==
    \/ \E th \in Threads, k \in KeyArgs : ThreadGet(th, k)
    \/ \E th \in Threads, k \in KeyArgs, v \in Vals : ThreadPrefill(th, k, v)
    \/ \E th \in Threads, c \in 0..sequence, k \in KeyArgs, v \in Vals :
           ThreadUpdate(th, c, k, v)
    \/ \E th \in Threads, k \in KeyArgs \cup {NonTuple} : ThreadInvalidate(th, k)
    \/ \E th \in Threads : ThreadInvalidateAll(th)

(***************************************************************************)
(* CacheListDescriptor: the batched accessor.  A call looks every key of   *)
(* its list up in the cache, hands the missing ones to one invocation of   *)
(* the batched producer ("batch"), installs a per-key deferred for each of *)
(* them, and gathers the hits and the misses into one result.  The store   *)
(* holds Deferred(b) under key k for the per-key deferred of batch b.      *)
(***************************************************************************)
MaxBatch == 2         \* invocations of the batched producer in one behaviour
MaxCalls == 2         \* calls of the batched accessor in one behaviour

\* list_args: the keys asked for, in the order given
ListArgs == {<<>>} \cup {<<k>> : k \in Keys}
                   \cup {<<k, q>> : <<k, q>> \in {pr \in Keys \X Keys : pr[1] # pr[2]}}

\* r[arg] raises KeyError: the keys a result of the producer may lack
Lacks == {{}} \cup {{k} : k \in Keys}

Range(q) == {q[n] : n \in 1..Len(q)}

\* try: self.cache.get(tuple(key)) / except KeyError: missing.append(arg)
ListAlwaysMiss(s, k) == FALSE

ListHit(s, k) == HasKey(s, k)

Missing(s, la) == SelectSeq(la, LAMBDA k : ~ListHit(s, k))

\* for arg in list_args: self.cache.get(tuple(key)): the store after the lookups
RECURSIVE GetAll(_, _, _)
GetAll(isLru, s, la) ==
    IF la = <<>> THEN s
    ELSE GetAll(isLru, GetStore(isLru, s, Head(la)), Tail(la))

\* observer.addErrback(invalidate, tuple(key)): self.cache.invalidate(key)
ErrKeepsEntry(st, k) == st

ErrInvalidate(st, k) ==
    [s |-> InvalidatePop(st.s, k), seq |-> BumpSequence(st.seq)]

\* for arg in missing: self.cache.update(sequence, key, observer), then the
\* errback, which runs at once when the producer's deferred has already failed
\* or its result lacks the key
RECURSIVE InstallMissing(_, _, _, _, _, _, _)
InstallMissing(n, isLru, st, captured, b, ks, failing) ==
    IF ks = <<>> THEN st
    ELSE LET k == Head(ks)
             up == [st EXCEPT !.s = UpdateWith(n, isLru, st.s, st.seq, captured,
                                               k, Deferred(b))]
             nx == IF k \in failing THEN ErrInvalidate(up, k) ELSE up
         IN  InstallMissing(n, isLru, nx, captured, b, Tail(ks), failing)

\* the producer's deferred fires later: the errbacks of the failing keys, in
\* the order the keys were installed
RECURSIVE InvalidateFailed(_, _, _)
InvalidateFailed(st, ks, failing) ==
    IF ks = <<>> THEN st
    ELSE InvalidateFailed(IF Head(ks) \in failing
                          THEN ErrInvalidate(st, Head(ks)) ELSE st,
                          Tail(ks), failing)

\* the keys of a batch whose per-key deferred fails
Failing(ks, o, lacks) ==
    IF o = "failed" THEN Range(ks)
    ELSE IF o = "ok" THEN lacks \cap Range(ks)
    ELSE {}

Gathering == [kind |-> "pending", map |-> <<>>]
Failure == [kind |-> "failed", map |-> <<>>]
Mapping(m) == [kind |-> "ok", map |-> m]

MemberFailed(bs, b, k) == bs[b].state # "pending" /\ k \in bs[b].failing
MemberOk(bs, b, k) == bs[b].state = "ok" /\ k \notin bs[b].failing

\* defer.gatherResults(cached.values(), consumeErrors=True)
\*     .addErrback(unwrapFirstError).addCallback(lambda res: dict(res)),
\* every member yielding the pair (arg, r); from[k] is the batch whose
\* per-key deferred the call observes for k; the value batch b has for k is
\* named <<b, k>>
GatherOnlyMissing(from, launched, bs) ==
    LET own == {k \in DOMAIN from : from[k] = launched}
    IN  IF \A k \in own : MemberOk(bs, from[k], k)
        THEN Mapping([k \in own |-> <<from[k], k>>])
        ELSE IF \E k \in own : MemberFailed(bs, from[k], k) THEN Failure
        ELSE Gathering

Gather(from, launched, bs) ==
    IF \E k \in DOMAIN from : MemberFailed(bs, from[k], k) THEN Failure
    ELSE IF \A k \in DOMAIN from : MemberOk(bs, from[k], k)
         THEN Mapping([k \in DOMAIN from |-> <<from[k], k>>])
         ELSE Gathering

Regather(rs, bs) ==
    [c \in 1..Len(rs) |->
        [rs[c] EXCEPT !.result = Gather(rs[c].from, rs[c].launched, bs)]]

InitBatch ==
    /\ batches = <<>>
    /\ requests = <<>>

\* wrapped(list_args): the lookups, the one producer call for the missing
\* keys with outcome o (still pending, or already fired), the installs, and
\* the gathered deferred handed back
BatchCall(la, o, lacks) ==
    LET missing == Missing(store, la)
        b == IF missing = <<>> THEN 0 ELSE Len(batches) + 1
        failing == Failing(missing, o, lacks)
        st == InstallMissing(capacity, lru,
                  [s |-> GetAll(lru, store, la), seq |-> sequence],
                  sequence, b, missing, failing)
        from == [k \in Range(la) |->
                    IF ListHit(store, k) THEN Lookup(store, k).v ELSE b]
        bs == IF missing = <<>> THEN batches
              ELSE Append(batches, [keys |-> missing, state |-> o,
                                    failing |-> failing])
    IN  /\ Len(requests) < MaxCalls
        /\ missing # <<>> => Len(batches) < MaxBatch
        /\ batches' = bs
        /\ store' = st.s
        /\ sequence' = st.seq
        /\ requests' = Append(requests,
               [want |-> la, from |-> from, launched |-> b,
                result |-> Gather(from, b, bs)])
        /\ UNCHANGED <<lru, readerVars, accVars, txnVars, opVars, crudVars, idVars, perfVars, cfgVars>>

\* the deferred of batch b fires with outcome o: every per-key deferred
\* fires, the failing ones invalidate their key, the gathered calls fire
CompleteBatch(b, o, lacks) ==
    /\ b \in 1..Len(batches)
    /\ batches[b].state = "pending"
    /\ LET failing == Failing(batches[b].keys, o, lacks)
           st == InvalidateFailed([s |-> store, seq |-> sequence],
                                  batches[b].keys, failing)
           bs == [batches EXCEPT ![b].state = o, ![b].failing = failing]
       IN  /\ batches' = bs
           /\ store' = st.s
           /\ sequence' = st.seq
           /\ requests' = Regather(requests, bs)
    /\ UNCHANGED <<lru, readerVars, accVars, txnVars, opVars, crudVars, idVars, perfVars, cfgVars>>

\* Cache.invalidate(key) by a writer
BatchInvalidate(k) ==
    /\ sequence < MaxSeq
    /\ sequence' = BumpSequence(sequence)
    /\ store' = InvalidatePop(store, k)
    /\ UNCHANGED <<lru, batches, requests, readerVars, accVars, txnVars, opVars, crudVars, idVars, perfVars, cfgVars>>

NextBatch ==
    \/ \E la \in ListArgs, o \in {"pending", "ok", "failed"}, lacks \in Lacks :
           BatchCall(la, o, lacks)
    \/ \E b \in 1..MaxBatch, o \in {"ok", "failed"}, lacks \in Lacks :
           CompleteBatch(b, o, lacks)
    \/ \E k \in Keys : BatchInvalidate(k)

(***************************************************************************)
(* The table helpers of SQLBaseStore (_simple_select_one, _simple_update_one, *)
(* _simple_upsert, _simple_insert_many_txn, _simple_delete_one,            *)
(* _simple_delete), each run as one transaction on one table.  A dict of   *)
(* column values is a set of <<column, value>> pairs; a row of the table   *)
(* has every column, 0 standing for NULL.                                  *)
(***************************************************************************)
MaxRows == 3          \* rows in the table

Cols == {"k", "v", "d"}            \* key column, value column, insert-only column
KeyVals == {1, 2}                  \* keyvalues: values of the key column
NewVals == {1, 2}                  \* values / updatevalues: values of column v
Engines == {"sqlite3", "psycopg2"} \* database_engine.module

\* insertion_values of an upsert
InsertionValues == {{}, {<<"d", 1>>}, {<<"d", 1>>, <<"v", 2>>}}

\* rows handed to _simple_insert_many_txn
RowDicts == {{}, {<<"k", 1>>}, {<<"k", 1>>, <<"v", 1>>}, {<<"k", 2>>, <<"v", 2>>}}

RowLists == {<<>>} \cup {<<r>> : r \in RowDicts}
                   \cup {<<r, q>> : <<r, q>> \in RowDicts \X RowDicts}

ColsOf(d) == {pr[1] : pr \in d}

\* dict.update: the later dict wins
Merge(d, e) == {pr \in d : pr[1] \notin ColsOf(e)} \cup e

ToRow(d) ==
    [c \in Cols |-> IF c \in ColsOf(d)
                    THEN (CHOOSE pr \in d : pr[1] = c)[2] ELSE 0]

NullRow == ToRow({})

\* WHERE k = ?
Matches(t, kv) == {n \in 1..Len(t) : t[n].k = kv}

\* UPDATE ... SET v = ? WHERE k = ?
SetWhere(t, kv, nv) ==
    [n \in 1..Len(t) |-> IF t[n].k = kv THEN [t[n] EXCEPT !.v = nv] ELSE t[n]]

\* DELETE FROM ... WHERE k = ?
DeleteWhere(t, kv) == SelectSeq(t, LAMBDA r : r.k # kv)

RECURSIVE AppendRows(_, _)
AppendRows(t, ds) ==
    IF ds = <<>> THEN t ELSE AppendRows(Append(t, ToRow(Head(ds))), Tail(ds))

\* txn.rowcount after a SELECT: the number of rows with a driver that
\* counts them, -1 with one that cannot tell
SelectRowcount(eng, n) == IF eng = "psycopg2" THEN n ELSE -1

Done == [kind |-> "ok", code |-> 0, row |-> NullRow]
RowResult(r) == [kind |-> "row", code |-> 0, row |-> r]
StoreError(code) == [kind |-> "StoreError", code |-> code, row |-> NullRow]
PyError(name) == [kind |-> name, code |-> 0, row |-> NullRow]

\* the checks on txn.rowcount after an UPDATE or a DELETE
RowcountUnchecked(n) == Done

ExactlyOne(n) ==
    IF n = 0 THEN StoreError(404)
    ELSE IF n > 1 THEN StoreError(500)
    ELSE Done

\* _simple_select_one_txn: fetchone, then the checks
SelectOneResult(eng, t, kv, allow_none) ==
    LET m == Matches(t, kv)
    IN  IF m = {}
        THEN IF allow_none THEN Done ELSE StoreError(404)
        ELSE IF SelectRowcount(eng, Cardinality(m)) > 1 THEN StoreError(500)
        ELSE RowResult(t[CHOOSE n \in m : \A q \in m : n <= q])

\* _simple_upsert_txn: the UPDATE, and the INSERT when it touched no row
UpsertAlwaysInserts(t, kv, nv, ins) ==
    Append(SetWhere(t, kv, nv), ToRow(Merge(Merge({<<"k", kv>>}, {<<"v", nv>>}), ins)))

UpsertTable(t, kv, nv, ins) ==
    IF Matches(t, kv) = {}
    THEN Append(t, ToRow(Merge(Merge({<<"k", kv>>}, {<<"v", nv>>}), ins)))
    ELSE SetWhere(t, kv, nv)

\* _simple_insert_many_txn: for i in values if i
KeepAllRows(ds) == ds

NonEmptyRows(ds) == SelectSeq(ds, LAMBDA d : d # {})

\* _simple_insert_many_txn: what the call does with the rows ds
InsertManyResult(ds) ==
    LET rows == NonEmptyRows(ds)
    IN  IF ds = <<>> THEN [out |-> Done, rows |-> <<>>, statements |-> 0]
        ELSE IF rows = <<>>
             THEN [out |-> PyError("ValueError"), rows |-> <<>>, statements |-> 0]
        ELSE IF \E n \in 1..Len(rows) : ColsOf(rows[n]) # ColsOf(rows[1])
             THEN [out |-> PyError("RuntimeError"), rows |-> <<>>, statements |-> 0]
        ELSE [out |-> Done, rows |-> rows, statements |-> 1]

\* _new_transaction around the work of a helper: conn.commit() only when the
\* work returned
CommittedAlways(out) == TRUE

Committed(out) == out.kind \in {"ok", "row"}

NoCall == [op |-> "none", out |-> Done, statements |-> 0, commit |-> FALSE]

Call(op, out, statements) ==
    [op |-> op, out |-> out, statements |-> statements, commit |-> Committed(out)]

InitCrudIdle ==
    /\ engine = "psycopg2"
    /\ table = <<>>
    /\ crud = NoCall

InitCrud ==
    /\ engine \in Engines
    /\ table = <<>>
    /\ crud = NoCall

CrudOthers == <<cacheVars, readerVars, accVars, txnVars, opVars, batchVars, idVars, perfVars, cfgVars>>

\* _simple_select_one
SelectOne(kv, allow_none) ==
    /\ crud' = Call("select_one", SelectOneResult(engine, table, kv, allow_none), 1)
    /\ UNCHANGED <<engine, table, CrudOthers>>

\* _simple_update_one
UpdateOne(kv, nv) ==
    LET out == ExactlyOne(Cardinality(Matches(table, kv)))
    IN  /\ crud' = Call("update_one", out, 1)
        /\ table' = IF Committed(out) THEN SetWhere(table, kv, nv) ELSE table
        /\ UNCHANGED <<engine, CrudOthers>>

\* _simple_upsert
Upsert(kv, nv, ins) ==
    /\ Len(table) < MaxRows
    /\ crud' = Call("upsert", Done, IF Matches(table, kv) = {} THEN 2 ELSE 1)
    /\ table' = UpsertTable(table, kv, nv, ins)
    /\ UNCHANGED <<engine, CrudOthers>>

\* runInteraction(desc, self._simple_insert_many_txn, table, values)
InsertMany(ds) ==
    LET res == InsertManyResult(ds)
    IN  /\ Len(table) + Len(res.rows) <= MaxRows
        /\ crud' = Call("insert_many", res.out, res.statements)
        /\ table' = IF Committed(res.out) THEN AppendRows(table, res.rows) ELSE table
        /\ UNCHANGED <<engine, CrudOthers>>

\* _simple_delete_one
DeleteOne(kv) ==
    LET out == ExactlyOne(Cardinality(Matches(table, kv)))
    IN  /\ crud' = Call("delete_one", out, 1)
        /\ table' = IF Committed(out) THEN DeleteWhere(table, kv) ELSE table
        /\ UNCHANGED <<engine, CrudOthers>>

\* _simple_delete: runInteraction(desc, self._simple_delete_txn), which calls
\* _simple_delete_txn(txn) without table and keyvalues
DeleteTxnArgs == {}

Delete(kv) ==
    LET out == IF {"table", "keyvalues"} \subseteq DeleteTxnArgs
               THEN Done ELSE PyError("TypeError")
    IN  /\ crud' = Call("delete", out, IF Committed(out) THEN 1 ELSE 0)
        /\ table' = IF Committed(out) THEN DeleteWhere(table, kv) ELSE table
        /\ UNCHANGED <<engine, CrudOthers>>

\* what the transaction of _simple_insert does with values d: zip(*{}.items())
\* cannot be unpacked; the INSERT runs and commits, breaks a constraint of the
\* table, or loses the database
InsertOutcomes(d) ==
    IF d = {} THEN {"ValueError"} ELSE {"ok", "IntegrityError", "OperationalError"}

\* except: with no class named
SwallowsAnyError(or_ignore, e) == or_ignore

\* except self.database_engine.module.IntegrityError: if not or_ignore: raise
Swallows(or_ignore, e) == e = "IntegrityError" /\ or_ignore

\* what _simple_insert hands to its caller
InsertDelivers(or_ignore, e) ==
    IF e = "ok" \/ Swallows(or_ignore, e) THEN Done ELSE PyError(e)

\* _simple_insert
Insert(d, or_ignore, e) ==
    /\ Len(table) < MaxRows
    /\ e \in InsertOutcomes(d)
    /\ crud' = [op |-> "insert", out |-> InsertDelivers(or_ignore, e),
                statements |-> IF d = {} THEN 0 ELSE 1, commit |-> e = "ok"]
    /\ table' = IF e = "ok" THEN Append(table, ToRow(d)) ELSE table
    /\ UNCHANGED <<engine, CrudOthers>>

InsertErrors == {"ok", "IntegrityError", "OperationalError", "ValueError"}

NextCrud ==
    \/ \E d \in RowDicts, or_ignore \in BOOLEAN, e \in InsertErrors :
           Insert(d, or_ignore, e)
    \/ \E kv \in KeyVals, allow_none \in BOOLEAN : SelectOne(kv, allow_none)
    \/ \E kv \in KeyVals, nv \in NewVals : UpdateOne(kv, nv)
    \/ \E kv \in KeyVals, nv \in NewVals, ins \in InsertionValues : Upsert(kv, nv, ins)
    \/ \E ds \in RowLists : InsertMany(ds)
    \/ \E kv \in KeyVals : DeleteOne(kv)
    \/ \E kv \in KeyVals : Delete(kv)

InitCruds ==
    InitCache /\ InitReaders /\ InitAccessor /\ InitTxn /\ InitOpsIdle /\ InitBatch
        /\ InitCrud /\ InitIds /\ InitPerf
        /\ InitConfigIdle

InitBatches ==
    InitCache /\ InitReaders /\ InitAccessor /\ InitTxn /\ InitOps /\ InitBatch
        /\ InitCrudIdle /\ InitIds /\ InitPerf
        /\ InitConfigIdle

InitThreads ==
    InitCache /\ InitReaders /\ InitAccessor /\ InitTxn /\ InitOps /\ InitBatch
        /\ InitCrudIdle /\ InitIds /\ InitPerf
        /\ InitConfigIdle

InitAll ==
    InitCache /\ InitReaders /\ InitAccessor /\ InitTxn /\ InitOpsIdle /\ InitBatch
        /\ InitCrudIdle /\ InitIds /\ InitPerf
        /\ InitConfigIdle

InitConfigs ==
    InitCache /\ InitReaders /\ InitAccessor /\ InitTxn /\ InitOpsIdle /\ InitBatch
        /\ InitCrudIdle /\ InitIds /\ InitPerf
        /\ InitConfig

SpecCache == InitAll /\ [][NextCache]_vars

SpecAccessor == InitAll /\ [][NextAccessor]_vars

SpecTxn == InitAll /\ [][NextTxn]_vars

\* one execution of func or of conn.commit() (with the conn.rollback() of its
\* except clause) returns or raises
AttemptEnds(t) ==
    \/ WorkReturn(t)
    \/ CommitOk(t)
    \/ \E e \in Errors, rb \in RollbackOutcomes :
           WorkRaise(t, e, rb) \/ CommitRaise(t, e, rb)

\* the transaction runner when no call made by _new_transaction blocks forever
SpecTxnFair ==
    InitAll /\ [][NextTxn]_vars /\ \A t \in Txns : WF_vars(AttemptEnds(t))

SpecThreads == InitThreads /\ [][NextThreads]_vars

SpecBatch == InitBatches /\ [][NextBatch]_vars

SpecCrud == InitCruds /\ [][NextCrud]_vars

SpecIds == InitAll /\ [][NextIds]_vars

SpecPerf == InitAll /\ [][NextPerf]_vars

SpecConfig == InitConfigs /\ [][NextConfig]_vars

(***************************************************************************)
(* Properties of the Cache and of the accessor.                            *)
(***************************************************************************)
StoredVals(s) == {s[n].val : n \in 1..Len(s)}

\* C1: an update(S, key, v) made after an invalidate or invalidate_all ran
\* since the reader captured S is discarded: v is not in the store and no
\* get returns it
C1_RacedUpdateDiscarded ==
    \A v \in discarded : Raw(v) \notin StoredVals(store) /\ lastGet # Raw(v)

C1_Witness ==
    /\ discarded # {}
    /\ lastGet.kind = "raw"
    /\ \E r \in Readers : readers[r].pc = "idle" /\ readers[r].val \in discarded
                          /\ HasKey(store, readers[r].key)

\* C2: a fetch that was pending when its key was invalidated (invalidate(k)
\* or invalidate_all) never has its entry in the cache afterwards, pending
\* or completed, and no later call is served from it: a later call for the
\* key misses, or finds the entry of a fetch launched after the invalidation
C2_InvalidatedFetchNotServed ==
    /\ [](\A f \in invalidated : ~Holds(store, f))
    /\ [][\A k \in Keys : CallHit(k) => Lookup(store, k).v \notin invalidated]_vars

C2_Witness ==
    \E f \in invalidated, g \in Fetched :
        /\ fetches[f].state = "ok"
        /\ g > f
        /\ fetches[g].key = fetches[f].key

SameOutcome ==
    \A o \in observers :
        IF Pending(o.obs) THEN o.got = "waiting" ELSE o.got = fetches[o.obs].state

\* C4 as stated: while a fetch for k is pending and no invalidation has
\* intervened, no call for k invokes the producer
C4_Original ==
    [][\A k \in Keys :
          (\E o \in {"pending", "ok", "failed"} : CallMiss(k, o)) =>
              PendingFor(k) \ invalidated = {}]_vars

\* C4, amended: while a fetch for k is pending and neither an invalidation
\* nor a removal of its entry from the store (eviction, prefill over it) has
\* intervened, a call for k invokes no producer and observes that fetch;
\* all observers of one fetch get the same delivered
C4_SingleFlight ==
    /\ [][\A k \in Keys :
            LET kept == PendingFor(k) \ (invalidated \cup evicted)
            IN  \/ kept = {}
                \/ /\ ~(\E o \in {"pending", "ok", "failed"} : CallMiss(k, o))
                   /\ ~CallHitRaw(k)
                   /\ CallHit(k) => Lookup(store, k).v \in kept]_vars
    /\ []SameOutcome

C4_Witness ==
    \E f \in Fetched, g \in {"ok", "failed"} :
        /\ [obs |-> f, launched |-> TRUE, early |-> TRUE, got |-> g] \in observers
        /\ [obs |-> f, launched |-> FALSE, early |-> TRUE, got |-> g] \in observers

\* C5 as stated: at most one producer invocation per key is pending
C5_Original ==
    \A f, g \in Fetched :
        (Pending(f) /\ Pending(g) /\ fetches[f].key = fetches[g].key) => f = g

\* C5, amended: at most one pending fetch per key has its entry in the
\* cache, namely the one whose entry was neither invalidated nor otherwise
\* removed, and a call made while the cache holds it starts no other fetch
C5_OnePendingEntryPerKey ==
    /\ [](\A k \in Keys :
            LET kept == PendingFor(k) \ (invalidated \cup evicted)
            IN  /\ Cardinality(kept) <= 1
                /\ \A f \in kept : Lookup(store, k) = Deferred(f)
                /\ \A f \in PendingFor(k) \ kept : ~Holds(store, f))
    /\ [][\A k \in Keys :
            (\E o \in {"pending", "ok", "failed"} : CallMiss(k, o)) =>
                \A f \in PendingFor(k) : ~Holds(store, f)]_vars

C5_Witness ==
    \E f, g \in Fetched :
        /\ f < g /\ Pending(f) /\ Pending(g)
        /\ fetches[f].key = fetches[g].key
        /\ Holds(store, g)
        /\ [obs |-> g, launched |-> FALSE, early |-> TRUE, got |-> "waiting"]
               \in observers

\* C6: no entry of the cache refers to a failed fetch, whether it failed
\* when launched or later; right after the failure the cache has no entry
\* for the key, so that the next call for it misses and invokes the producer
C6_FailureNotCached ==
    /\ [](\A f \in Fetched : fetches[f].state = "failed" => ~Holds(store, f))
    /\ [][\A f \in 1..MaxFetch :
            CompleteFailed(f) => ~HasKey(store', fetches[f].key)]_vars
    /\ [][\A k \in Keys : CallMiss(k, "failed") => ~HasKey(store', k)]_vars

C6_Witness ==
    \E f, g \in Fetched :
        /\ f < g
        /\ fetches[f].state = "failed"
        /\ fetches[g].key = fetches[f].key

(***************************************************************************)
(* Properties of the transaction runner.                                   *)
(***************************************************************************)
\* C7 as stated: the work is executed at most 5 times, the first included
C7_Original ==
    \A t \in Txns : hist[t].executed <= N

\* C7, amended: the work is executed at most N + 1 = 6 times, the first
\* attempt and at most N = 5 retries; the retries are counted per
\* transaction (i is the number of this transaction's rollbacks), and a
\* transient error surfaces only after the sixth execution
C7_RetryBudget ==
    \A t \in Txns :
        /\ hist[t].executed <= N + 1
        /\ pc[t] # "idle" =>
              /\ i[t] = hist[t].rollbacks
              /\ hist[t].executed = i[t] + 1
        /\ Transient(delivered[t]) => hist[t].executed = N + 1

C7_Witness ==
    \E t \in Txns :
        /\ TXN_ID = 2
        /\ pc[t] = "failed"
        /\ delivered[t] = "Deadlock"
        /\ hist[t].executed = N + 1

\* C8: the callbacks invoked after the commit are those registered by the
\* committing attempt, none of a rolled-back attempt
C8_OnlyCommittingAttempt ==
    \A t \in Txns :
        \A n \in 1..Len(invoked[t]) : invoked[t][n].attempt = ret[t]

\* the work registers the one callback "a" on every attempt it executes
RegistersOnEveryAttempt(t) ==
    /\ Len(after_callbacks[t]) = hist[t].executed
    /\ \A n \in 1..Len(after_callbacks[t]) :
           after_callbacks[t][n] = [cb |-> "a", attempt |-> n]

\* C9: when the work raised a transient error on its first k attempts and
\* returned on attempt k + 1, registering its callback on every attempt,
\* the submitter has the result of attempt k + 1, there were k rollbacks
\* and one commit, and the callback ran once
C9_RetriedThenCommitted ==
    \A t \in Txns :
        ( /\ pc[t] = "done"
          /\ hist[t].workRaised = hist[t].executed - 1
          /\ RegistersOnEveryAttempt(t) ) =>
            /\ delivered[t] = "result"
            /\ ret[t] = hist[t].executed
            /\ hist[t].rollbacks = hist[t].executed - 1
            /\ hist[t].commits = 1
            /\ Len(invoked[t]) = 1

IsPrefix(p, q) == Len(p) <= Len(q) /\ SubSeq(q, 1, Len(p)) = p

\* C10: callbacks are invoked only after the successful commit of their
\* transaction, never for a transaction that failed in its work or its
\* commit, and in the order of their registration
C10_CallbacksAfterCommitInOrder ==
    \A t \in Txns :
        /\ invoked[t] # <<>> => hist[t].commits = 1 /\ pc[t] \in {"done", "failed"}
        /\ delivered[t] \in Errors => invoked[t] = <<>>
        /\ IsPrefix(invoked[t], after_callbacks[t])
        /\ pc[t] = "done" => invoked[t] = after_callbacks[t]

C10_Witness ==
    \E t \in Txns :
        /\ pc[t] = "done"
        /\ Len(invoked[t]) >= 2
        /\ invoked[t][1].cb # invoked[t][2].cb

(***************************************************************************)
(* C11: when the work raises an error that is neither an OperationalError  *)
(* nor a deadlock DatabaseError, the work is not executed again, commit is *)
(* not called, no rollback is made by the retry loop, and that same error  *)
(* is what the submitter gets; a failed transaction only leaves the failed *)
(* state by being submitted anew.                                          *)
(***************************************************************************)
C11_FatalErrorNotRetried ==
    [][/\ \A t \in Txns, e \in {"DatabaseError", "Exception"},
             rb \in RollbackOutcomes :
             WorkRaise(t, e, rb) =>
                 /\ pc'[t] = "failed"
                 /\ delivered'[t] = e
                 /\ hist'[t].executed = hist[t].executed
                 /\ hist'[t].rollbacks = hist[t].rollbacks
                 /\ hist'[t].commits = 0
       /\ \A t \in Txns :
             pc[t] = "failed" /\ pc'[t] # "failed" =>
                 TXN_ID' = TXN_ID + 1 /\ hist'[t].workRaised = 0]_vars

C11_Witness ==
    \E t \in Txns :
        /\ pc[t] = "failed"
        /\ delivered[t] = "DatabaseError"
        /\ hist[t].executed = 2
        /\ hist[t].workRaised = 2
        /\ hist[t].commits = 0

(***************************************************************************)
(* C12: the submitter gets a transient error only when the retry budget is *)
(* used up (i = N), and the error it gets is the one the failing attempt   *)
(* raised: never the database error of a rollback, which is swallowed.     *)
(***************************************************************************)
C12_TransientErrorUnchanged ==
    /\ [](\A t \in Txns :
            /\ delivered[t] # "RollbackError"
            /\ delivered[t] \in {"OperationalError", "Deadlock"} => i[t] = N)
    /\ [][\A t \in Txns, e \in Errors, rb \in RollbackOutcomes :
            (WorkRaise(t, e, rb) \/ CommitRaise(t, e, rb)) /\ pc'[t] = "failed"
                => delivered'[t] = e]_vars

C12_Witness ==
    \E t \in Txns :
        /\ pc[t] = "failed"
        /\ delivered[t] = "OperationalError"
        /\ hist[t].rollbackRaised
        /\ hist[t].workRaised = N + 1
        /\ i[t] = N

(***************************************************************************)
(* C14: Cache.update(s, key, value) installs value under key if and only   *)
(* if s is the cache's current sequence; when s differs, the call returns  *)
(* without an error and the store and the sequence are what they were.     *)
(***************************************************************************)
C14_UpdateGatedBySequence ==
    [][\A r \in Readers :
          ReaderUpdate(r) =>
              /\ sequence' = sequence
              /\ readers'[r].pc = "idle"
              /\ IF readers[r].seq = sequence
                 THEN Lookup(store', readers[r].key) = Raw(readers[r].val)
                 ELSE /\ store' = store
                      /\ Raw(readers[r].val) \notin StoredVals(store')]_vars

C14_Witness ==
    \E r, q \in Readers :
        /\ readers[r].pc = "idle" /\ readers[q].pc = "idle"
        /\ Raw(readers[r].val) \in StoredVals(store)
        /\ readers[q].val \in discarded
        /\ readers[q].key = readers[r].key
        /\ sequence = 1

(***************************************************************************)
(* C13: the sequence is the number of invalidate and invalidate_all calls  *)
(* that have returned since construction: each raises it by exactly one,   *)
(* also for an absent key or an empty store, and get, update and prefill   *)
(* leave it alone, so it never decreases and is never reset.               *)
(***************************************************************************)
C13_SequenceCountsInvalidations ==
    /\ [](sequence = calls)
    /\ [][/\ sequence' >= sequence
          /\ last'.op \in {"invalidate", "invalidate_all"} /\ last'.out = Ok
                 => sequence' = sequence + 1
          /\ last'.op \in {"get", "prefill", "update"} \/ last'.out = ValueError
                 => sequence' = sequence]_vars

C13_Witness ==
    /\ sequence = 2
    /\ calls = 2
    /\ store = <<>>
    /\ last.op = "invalidate" /\ last.out = Ok /\ last.val = 0

(***************************************************************************)
(* C15: in any reachable cache state, LRU or insertion-ordered, prefill of *)
(* (key, v) directly after prefill of the same (key, v) leaves the number  *)
(* of stored entries unchanged, and get(key) returns v.                    *)
(***************************************************************************)
C15_PrefillTwice ==
    [][\A th \in Threads, k \in KeyArgs, v \in Vals :
          /\ last.op = "prefill" /\ last.key = k /\ last.val = v
          /\ ThreadPrefill(th, k, v)
          => Len(store') = Len(store) /\ Lookup(store', k) = Raw(v)]_vars

(***************************************************************************)
(* C16: a non-LRU cache of capacity n into which n + 1 distinct keys have  *)
(* been prefilled since construction misses on the first of them and hits  *)
(* on each of the n later ones with the value prefilled; get returns what  *)
(* the store holds.                                                        *)
(***************************************************************************)
C16_OldestInsertedEvictedFirst ==
    /\ ~lru /\ trail.live /\ Len(trail.ps) = capacity + 1 =>
           /\ Lookup(store, trail.ps[1].key) = Miss
           /\ \A j \in 2..(capacity + 1) :
                  Lookup(store, trail.ps[j].key) = Raw(trail.ps[j].val)
    /\ last.op = "get" => last.out = Lookup(store, last.key)

C16_Witness ==
    /\ ~lru /\ capacity = 2
    /\ trail.live
    /\ trail.ps = <<[key |-> "a", val |-> 1], [key |-> "b", val |-> 2],
                    [key |-> "c", val |-> 3]>>
    /\ last = [op |-> "get", key |-> "a", val |-> 0, out |-> Miss]

(***************************************************************************)
(* C20: once the cache has recorded a thread, every operation (get,        *)
(* update, prefill, invalidate, invalidate_all) made from another thread   *)
(* fails with an error and leaves the store and the sequence as they were. *)
(***************************************************************************)
C20_CrossThreadRejected ==
    [][\A th \in Threads :
          /\ Rejected(thread, th)
          /\ \/ \E k \in KeyArgs : ThreadGet(th, k)
             \/ \E k \in KeyArgs, v \in Vals : ThreadPrefill(th, k, v)
             \/ \E k \in KeyArgs, v \in Vals, c \in 0..sequence :
                    ThreadUpdate(th, c, k, v)
             \/ \E k \in KeyArgs : ThreadInvalidate(th, k)
             \/ ThreadInvalidateAll(th)
          => last'.out = ValueError /\ store' = store /\ sequence' = sequence]_vars

(***************************************************************************)
(* C17: one call of the batched accessor invokes the batched producer at   *)
(* most once, with exactly the requested keys that have no cache entry     *)
(* (completed or pending) at call time, and not at all when every          *)
(* requested key has one; nothing but a call invokes it.                   *)
(***************************************************************************)
C17_OneBatchForTheMisses ==
    [][/\ \A la \in ListArgs, o \in {"pending", "ok", "failed"}, lacks \in Lacks :
             BatchCall(la, o, lacks) =>
                 LET miss == {k \in Range(la) : ~HasKey(store, k)}
                 IN  IF miss = {}
                     THEN batches' = batches
                     ELSE /\ Len(batches') = Len(batches) + 1
                          /\ SubSeq(batches', 1, Len(batches)) = batches
                          /\ Range(batches'[Len(batches')].keys) = miss
                          /\ Len(batches'[Len(batches')].keys) = Cardinality(miss)
       /\ Len(requests') = Len(requests) => Len(batches') = Len(batches)]_vars

C17_Witness ==
    \E c \in 1..Len(requests) :
        LET r == requests[c]
        IN  /\ Len(r.want) = 2
            /\ r.launched # 0
            /\ Len(batches[r.launched].keys) = 1
            /\ \E k \in Range(r.want) :
                   r.from[k] # r.launched /\ batches[r.from[k]].state = "pending"

(***************************************************************************)
(* C18: once a batched producer call has failed, the store holds no entry  *)
(* installed for that batch, and the batched accessor call that made it    *)
(* has failed, also when other keys it asked for were hits.                *)
(***************************************************************************)
C18_FailedBatchInvalidated ==
    \A b \in 1..Len(batches) :
        batches[b].state = "failed" =>
            /\ ~Holds(store, b)
            /\ \A c \in 1..Len(requests) :
                   requests[c].launched = b => requests[c].result = Failure

C18_Witness ==
    \E c \in 1..Len(requests) :
        LET r == requests[c]
        IN  /\ r.launched # 0
            /\ batches[r.launched].state = "failed"
            /\ r.result = Failure
            /\ \E k \in Range(r.want) :
                   r.from[k] # r.launched /\ MemberOk(batches, r.from[k], k)

(***************************************************************************)
(* C19: a batched accessor call that succeeds yields a mapping whose keys  *)
(* are the requested keys, a hit mapped to the value of the entry found in *)
(* the cache and a miss to the value the batch result has for it; when a   *)
(* member, hit or miss, fails, the call fails.                             *)
(***************************************************************************)
C19_MergedMapping ==
    /\ [](\A c \in 1..Len(requests) :
            LET r == requests[c]
            IN  /\ r.result.kind = "ok" =>
                       /\ DOMAIN r.result.map = Range(r.want)
                       /\ \A k \in Range(r.want) :
                              /\ r.result.map[k] = <<r.from[k], k>>
                              /\ MemberOk(batches, r.from[k], k)
                /\ (\E k \in Range(r.want) : MemberFailed(batches, r.from[k], k))
                       => r.result = Failure)
    /\ [][\A la \in ListArgs, o \in {"pending", "ok", "failed"}, lacks \in Lacks :
            BatchCall(la, o, lacks) =>
                \A k \in Range(la) :
                    requests'[Len(requests')].from[k] =
                        IF HasKey(store, k) THEN Lookup(store, k).v
                        ELSE Len(batches')]_vars

C19_Witness ==
    \E c \in 1..Len(requests) :
        LET r == requests[c]
        IN  /\ r.result.kind = "ok"
            /\ Len(r.want) = 2
            /\ r.launched # 0
            /\ \E k \in Range(r.want) : r.from[k] # r.launched

(***************************************************************************)
(* C21: _simple_select_one returns the row when exactly one row matches;   *)
(* with no matching row it returns the absent result when allow_none is    *)
(* set and fails with StoreError 404 otherwise; with more than one         *)
(* matching row it fails with StoreError 500, whatever allow_none is.      *)
(***************************************************************************)
C21_SelectOneChecksTheCount ==
    [][\A kv \in KeyVals, allow_none \in BOOLEAN :
          SelectOne(kv, allow_none) =>
              LET m == Matches(table, kv)
              IN  /\ Cardinality(m) = 1 =>
                         crud'.out = RowResult(table[CHOOSE n \in m : TRUE])
                  /\ m = {} =>
                         crud'.out = IF allow_none THEN Done ELSE StoreError(404)
                  /\ Cardinality(m) > 1 => crud'.out = StoreError(500)]_vars

(***************************************************************************)
(* C22: _simple_update_one succeeds only when exactly one row was          *)
(* affected; with none it fails with StoreError 404, with more than one    *)
(* with StoreError 500, and then commit is not called and the committed    *)
(* table is what it was.                                                   *)
(***************************************************************************)
C22_UpdateOneExactlyOne ==
    [][\A kv \in KeyVals, nv \in NewVals :
          UpdateOne(kv, nv) =>
              LET n == Cardinality(Matches(table, kv))
              IN  /\ n = 1 => /\ crud'.out = Done /\ crud'.commit
                              /\ table' = SetWhere(table, kv, nv)
                  /\ n = 0 => crud'.out = StoreError(404)
                  /\ n > 1 => crud'.out = StoreError(500)
                  /\ n # 1 => ~crud'.commit /\ table' = table]_vars

C22_Witness ==
    /\ crud.op = "update_one"
    /\ crud.out = StoreError(500)
    /\ ~crud.commit
    /\ \E kv \in KeyVals : Cardinality(Matches(table, kv)) = 2

(***************************************************************************)
(* C23: _simple_upsert on a table with no row matching keyvalues inserts   *)
(* exactly one row, made of keyvalues, values and insertion_values; with a *)
(* matching row it changes only the values columns of the matching rows,   *)
(* inserts nothing and leaves insertion_values out.                        *)
(***************************************************************************)
C23_UpsertInsertsOrUpdates ==
    [][\A kv \in KeyVals, nv \in NewVals, ins \in InsertionValues :
          Upsert(kv, nv, ins) =>
              IF Matches(table, kv) = {}
              THEN /\ Len(table') = Len(table) + 1
                   /\ SubSeq(table', 1, Len(table)) = table
                   /\ LET r == table'[Len(table')]
                      IN  /\ r.k = kv
                          /\ r.v = IF <<"v", 2>> \in ins THEN 2 ELSE nv
                          /\ r.d = IF <<"d", 1>> \in ins THEN 1 ELSE 0
              ELSE /\ Len(table') = Len(table)
                   /\ \A n \in 1..Len(table) :
                          /\ table'[n].k = table[n].k
                          /\ table'[n].d = table[n].d
                          /\ table'[n].v = IF table[n].k = kv THEN nv
                                           ELSE table[n].v]_vars

C23_Witness ==
    /\ crud.op = "upsert"
    /\ crud.statements = 1
    /\ Len(table) = 2
    /\ table[1] = [k |-> 1, v |-> 2, d |-> 1]
    /\ table[2] = [k |-> 2, v |-> 2, d |-> 0]

(***************************************************************************)
(* C24: _simple_insert_many_txn given rows whose column sets are not all   *)
(* the same fails before any statement is executed, so no row is inserted; *)
(* given no rows it executes no statement and succeeds.                    *)
(***************************************************************************)
C24_InsertManySameColumns ==
    [][\A ds \in RowLists :
          InsertMany(ds) =>
              /\ ds = <<>> =>
                     crud'.out = Done /\ crud'.statements = 0 /\ table' = table
              /\ (\E n, q \in 1..Len(ds) : ColsOf(ds[n]) # ColsOf(ds[q])) =>
                     /\ crud'.out # Done
                     /\ crud'.statements = 0
                     /\ table' = table]_vars

(***************************************************************************)
(* C25: _simple_delete_one succeeds only when exactly one row was deleted; *)
(* with no matching row it fails with StoreError 404, with more than one   *)
(* with StoreError 500, and then commit is not called.                     *)
(***************************************************************************)
C25_DeleteOneExactlyOne ==
    [][\A kv \in KeyVals :
          DeleteOne(kv) =>
              LET n == Cardinality(Matches(table, kv))
              IN  /\ n = 1 => /\ crud'.out = Done /\ crud'.commit
                              /\ table' = DeleteWhere(table, kv)
                  /\ n = 0 => crud'.out = StoreError(404)
                  /\ n > 1 => crud'.out = StoreError(500)
                  /\ n # 1 => ~crud'.commit /\ table' = table]_vars

C25_Witness ==
    /\ crud.op = "delete_one"
    /\ crud.out = StoreError(500)
    /\ ~crud.commit
    /\ Len(table) = 3
    /\ \E kv \in KeyVals : Cardinality(Matches(table, kv)) = 2

(***************************************************************************)
(* C26: _simple_delete runs one transaction that deletes the rows matching *)
(* keyvalues and succeeds, whatever the number of rows deleted.            *)
(***************************************************************************)
C26_DeleteSucceeds ==
    [][\A kv \in KeyVals :
          Delete(kv) =>
              /\ crud'.out = Done
              /\ crud'.statements = 1
              /\ table' = DeleteWhere(table, kv)]_vars

(***************************************************************************)
(* C27: once the accessor's prefill has stored v under a key, and while    *)
(* that entry is in the cache, a call of the accessor for the key is       *)
(* served from it: the hit branch hands the caller an observer of the      *)
(* entry and the producer is not invoked.                                  *)
(***************************************************************************)
C27_PrefilledKeyServed ==
    \A k \in Keys :
        HasKey(store, k) /\ Lookup(store, k) = Raw(k) => ENABLED CallHit(k)

(***************************************************************************)
(* C28: every attempt of a transaction that ends in a transient error is   *)
(* rolled back by the runner, the attempt that uses up the retry budget    *)
(* included.                                                               *)
(***************************************************************************)
C28_TransientAttemptRolledBack ==
    [][\A t \in Txns, e \in {"OperationalError", "Deadlock"},
          rb \in RollbackOutcomes :
          WorkRaise(t, e, rb) \/ CommitRaise(t, e, rb)
              => hist'[t].rollbacks = hist[t].rollbacks + 1]_vars


(***************************************************************************)
(* C29: when every execution of the work, of commit and of rollback        *)
(* returns or raises, a started transaction always ends, committed or      *)
(* failed: the loop counter stays within the budget N, and an attempt that *)
(* is executing or committing leads to the end of the transaction.         *)
(***************************************************************************)
C29_TransactionTerminates ==
    /\ [](\A t \in Txns : i[t] \in 0..N)
    /\ \A t \in Txns :
           pc[t] \in {"work", "commit"} ~> pc[t] \in {"committed", "done", "failed"}

C29_Witness ==
    \E t \in Txns :
        /\ pc[t] = "failed"
        /\ i[t] = N
        /\ delivered[t] \in {"OperationalError", "Deadlock"}
        /\ hist[t].executed = N + 1


(***************************************************************************)
(* C30: no attempt, the first or a retry, opens its cursor on a connection *)
(* that is in the closed state.                                            *)
(***************************************************************************)
C30_NoAttemptOnClosedConnection ==
    \A t \in Txns : pc[t] = "work" => ~closed[t]


(***************************************************************************)
(* C31: the ids of the transactions started on one store strictly increase *)
(* in start order until the wrap, whichever threads start them, so no two  *)
(* of them are equal before the wrap.                                      *)
(***************************************************************************)
C31_IdsIncreaseInStartOrder ==
    \A a, b \in 1..Len(names) :
        a < b /\ b <= IdWrap => names[a] < names[b]


(***************************************************************************)
(* C32: when a fetch fails, its error handler removes only the entry that  *)
(* this fetch installed: the entry of any other fetch stays in the store.  *)
(***************************************************************************)
C32_OnErrRemovesOwnEntryOnly ==
    [][\A f, g \in Fetched :
          /\ f # g
          /\ Pending(f)
          /\ fetches'[f].state = "failed"
          /\ Holds(store, g)
          => Holds(store', g)]_vars


(***************************************************************************)
(* C33: commit is called only in an attempt whose work has returned, right *)
(* after it; once a commit of a transaction has succeeded, its work is not *)
(* executed again, no rollback is made and no further commit is called.    *)
(***************************************************************************)
C33_CommitAfterWorkAndFinal ==
    [][\A t \in Txns :
          /\ hist'[t].commits > hist[t].commits
                => pc[t] = "commit" /\ ret[t] = hist[t].executed
          /\ pc[t] = "commit" => ret[t] = hist[t].executed /\ hist[t].commits = 0
          /\ hist[t].commits >= 1 /\ TXN_ID' = TXN_ID
                => /\ hist'[t] = hist[t]
                   /\ pc'[t] \in {"committed", "done", "failed"}]_vars

C33_Witness ==
    \E t \in Txns :
        /\ pc[t] = "done"
        /\ hist[t].commits = 1
        /\ hist[t].rollbacks >= 1
        /\ hist[t].executed = hist[t].rollbacks + 1


(***************************************************************************)
(* C34: once the commit of a transaction has succeeded, every callback     *)
(* registered by the committing attempt is invoked and the submitter gets  *)
(* the result of the work, even when one of the callbacks raises.          *)
(***************************************************************************)
C34_CallbacksAllInvoked ==
    \A t \in Txns :
        hist[t].commits = 1 /\ pc[t] \in {"done", "failed"}
            => /\ delivered[t] = "result"
               /\ \A n \in 1..Len(after_callbacks[t]) :
                      after_callbacks[t][n].attempt = ret[t]
                          => \E m \in 1..Len(invoked[t]) :
                                 invoked[t][m] = after_callbacks[t][n]


(***************************************************************************)
(* C35: when the rollback made for a transient error with retry budget     *)
(* left raises a database error, the transaction goes on to its next       *)
(* attempt, which uses up one retry of the same budget, and nothing is     *)
(* delivered to the submitter by that step.                                *)
(***************************************************************************)
C35_RollbackErrorSwallowed ==
    [][\A t \in Txns, e \in {"OperationalError", "Deadlock"} :
          (WorkRaise(t, e, "Error") \/ CommitRaise(t, e, "Error")) /\ i[t] < N
              => /\ pc'[t] = "work"
                 /\ i'[t] = i[t] + 1
                 /\ hist'[t].executed = hist[t].executed + 1
                 /\ hist'[t].rollbackRaised
                 /\ delivered'[t] = "none"]_vars

C35_Witness ==
    \E t \in Txns :
        /\ pc[t] = "done"
        /\ delivered[t] = "result"
        /\ hist[t].rollbackRaised
        /\ i[t] = 1
        /\ hist[t].executed = 2


\* the batched call made by this step, if it is one
NewRequest == requests'[Len(requests')]

\* the store has room for its keys and those asked for: nothing is evicted
Fits(la) ==
    Cardinality({store[n].key : n \in 1..Len(store)} \cup Range(la)) <= capacity

(***************************************************************************)
(* C36: after a batched call whose producer has succeeded, with nothing    *)
(* evicted, every key that was missing and that the result has a value for *)
(* has its entry in the store, from which a following call is served.      *)
(***************************************************************************)
C36_BatchEntriesInstalled ==
    [][Len(requests') > Len(requests) /\ NewRequest.launched # 0
          /\ Fits(NewRequest.want)
          /\ batches'[NewRequest.launched].state = "ok"
          => \A k \in Range(batches'[NewRequest.launched].keys) :
                 k \notin batches'[NewRequest.launched].failing
                     => /\ HasKey(store', k)
                        /\ Lookup(store', k) = Deferred(NewRequest.launched)]_vars


(***************************************************************************)
(* C37: a Cache built without LRU and with max_entries = N >= 1 never      *)
(* holds more than N entries, whatever prefill, update, invalidate and     *)
(* invalidate_all calls are made.                                          *)
(***************************************************************************)
C37_AtMostMaxEntries ==
    ~lru => capacity >= 1 /\ Len(store) <= capacity

C37_Witness ==
    /\ ~lru
    /\ capacity = 2
    /\ Len(store) = capacity
    /\ trail.live /\ Len(trail.ps) = capacity + 1
    /\ last.op \in {"prefill", "update"} /\ last.out = Ok


(***************************************************************************)
(* C38: interval(d, limit) reports at most limit descriptions, in the      *)
(* order of descending share of time, the ones it leaves out having no     *)
(* larger share than the ones it reports; each one with the count and the  *)
(* duration that update() has added since the interval() call before.      *)
(***************************************************************************)
C38_IntervalReportsTheTop ==
    [][\A d \in Intervals, limit \in Limits :
          PerfInterval(d, limit) =>
              LET top == top_n_counters'
                  reported == {top[n].name : n \in 1..Len(top)}
              IN  /\ Len(top) <= limit
                  /\ Cardinality(reported) = Len(top)
                  /\ \A n \in 1..Len(top) :
                         /\ top[n].count = since[top[n].name].count
                         /\ top[n].ratio.num = since[top[n].name].cum_time
                         /\ top[n].ratio.den = d
                         /\ n < Len(top)
                                => top[n].ratio.num >= top[n + 1].ratio.num
                         /\ \A k \in Descs \ reported :
                                since[k].cum_time <= top[n].ratio.num
                  /\ Len(top) < limit
                         => reported = {k \in Descs : current_counters[k].count > 0}]_vars

C38_Witness ==
    /\ Len(top_n_counters) = 2
    /\ top_n_counters[1].ratio.num > top_n_counters[2].ratio.num
    /\ top_n_counters[2].count = 0
    /\ top_n_counters[1].count = 1
    /\ current_counters[top_n_counters[2].name].count >= 1
    /\ previous_counters = current_counters


(***************************************************************************)
(* C39: _simple_insert hands success to its caller when its transaction    *)
(* fails with an IntegrityError and or_ignore is set, though nothing was   *)
(* inserted, and hands on the IntegrityError when or_ignore is not set;    *)
(* any other error is handed on whatever or_ignore is.                     *)
(***************************************************************************)
C39_OrIgnoreSwallowsIntegrityError ==
    [][\A d \in RowDicts, or_ignore \in BOOLEAN, e \in InsertErrors :
          Insert(d, or_ignore, e) =>
              /\ e = "IntegrityError" /\ or_ignore
                     => crud'.out = Done /\ table' = table /\ ~crud'.commit
              /\ e = "IntegrityError" /\ ~or_ignore
                     => crud'.out = PyError("IntegrityError") /\ table' = table
              /\ e \notin {"ok", "IntegrityError"}
                     => crud'.out = PyError(e) /\ table' = table
              /\ e = "ok" => crud'.out = Done /\ crud'.commit]_vars

C39_Witness ==
    /\ crud.op = "insert"
    /\ crud.out = Done
    /\ ~crud.commit
    /\ Len(table) = 1


\* the place of a section in RootConfig.config_classes
Place(sec) == CHOOSE n \in 1..Len(config_classes) : config_classes[n] = sec

(***************************************************************************)
(* C40: a lookup of an option that the section does not define itself is   *)
(* answered by the first other section, in config_classes order, that has  *)
(* the attribute; the asking section is not among the sections consulted;  *)
(* an AttributeError is raised when no other section has the option or     *)
(* when the section has no root.                                           *)
(***************************************************************************)
C40_FirstOtherSectionAnswers ==
    LET a == answer
        others == {sec \in Sections \ {a.asking} : <<sec, a.item>> \in attrs}
    IN  a.asking \in Sections /\ <<a.asking, a.item>> \notin attrs
            /\ a.item \notin Reserved
            => /\ a.asking \notin a.consulted
               /\ a.root /\ others # {}
                      => /\ a.out.kind = "value"
                         /\ a.out.section \in others
                         /\ \A sec \in others : Place(a.out.section) <= Place(sec)
               /\ ~a.root \/ others = {} => a.out = AttributeError(a.item)

C40_Witness ==
    /\ answer.asking = config_classes[1]
    /\ answer.root
    /\ <<answer.asking, answer.item>> \notin attrs
    /\ <<config_classes[2], answer.item>> \in attrs
    /\ <<config_classes[3], answer.item>> \in attrs
    /\ answer.out = Found(config_classes[2], answer.item)

====
